---- MODULE Spec2Model ----
(***************************************************************************)
(* Model of brainlife/app-resampling (src/resampling.py).                  *)
(*                                                                         *)
(* main() reads a recording (continuous or epoched) and an optional        *)
(* events.tsv, builds the events matrix, refuses to run when no events     *)
(* file is given although the jointly resampled events were asked for,     *)
(* calls resampling() on a copy of the recording, writes a BIDS events.tsv *)
(* from the resampled events and reports success in product.json.          *)
(*                                                                         *)
(* Python objects live in two heaps (raws, arrays); the program variables  *)
(* data, data_copy, data_resampled, events_matrix and events_resampled     *)
(* hold references into them, 0 standing for None / not bound.  Sampling   *)
(* rates are integers (multiples of a common base rate).                   *)
(*                                                                         *)
(* The arithmetic of mne's Raw.resample / Epochs.resample and the table    *)
(* written by mne_bids.write_raw_bids are library code, not in src/; they  *)
(* are modelled from the specification's statement of them.                *)
(***************************************************************************)
EXTENDS Integers, Sequences, FiniteSets, TLC

VARIABLES
    pc,                                   \* position in main() / in the harness
    param_epoched_data,                   \* config['param_epoched_data']
    param_save_jointly_resampled_events,  \* config['param_save_jointly_resampled_events']
    param_sfreq,                          \* config['param_sfreq']
    fif,                                  \* the recording as stored in the input file
    events_file,                          \* [present, rows]: the optional events.tsv
    raws,                                 \* heap of Raw / Epochs objects
    arrays,                               \* heap of numpy event arrays
    data, data_copy, data_resampled,      \* references into raws
    events_matrix, events_resampled,      \* references into arrays
    out_fif,                              \* [saved, rec]: out_dir_resampling/meg.fif
    dict_event_id,                        \* ordered trial-type map
    events_tsv,                           \* [written, rows]: out_dir_resampling/events.tsv
    product,                              \* messages of dict_json_product['brainlife']
    error                                 \* exception that ended the run, or "none"

vars == <<pc, param_epoched_data, param_save_jointly_resampled_events, param_sfreq,
          fif, events_file, raws, arrays, data, data_copy, data_resampled,
          events_matrix, events_resampled, out_fif, dict_event_id, events_tsv,
          product, error>>

---------------------------------------------------------------------------
(* Bounds of the model *)

MaxRows == 2

MaxSample == 3

MaxFirstSamp == 1

MaxRate == 3

Values == {3, 7}

Rates == 1..MaxRate

Lengths == (MaxSample + 1)..(MaxSample + 2)

RowSet == (0..MaxSample) \X Values

RowSeqs == UNION {[1..k -> RowSet] : k \in 0..MaxRows}

NoRaw == [sfreq |-> 0, n_times |-> 0, first_samp |-> 0]

NoFile == [present |-> FALSE, rows |-> <<>>]

---------------------------------------------------------------------------
(* Library arithmetic, as the specification states it *)

\* round(num / den) for num >= 0, den > 0, ties to the even neighbour
RoundHalfEven(num, den) ==
    LET q == num \div den
        r == num % den
    IN  IF 2 * r < den THEN q
        ELSE IF 2 * r > den THEN q + 1
        ELSE IF q % 2 = 0 THEN q ELSE q + 1

Truncate(num, den) == num \div den

ResampledLengthTruncated(n, fs_old, fs_new) == Truncate(n * fs_new, fs_old)

\* new sample count: round(n_old * fs_new / fs_old)
ResampledLength(n, fs_old, fs_new) == RoundHalfEven(n * fs_new, fs_old)

\* new sample index: round(absolute_sample * fs_new / fs_old)
RescaledSample(x, fs_old, fs_new) == RoundHalfEven(x * fs_new, fs_old)

\* the in-place effect of resample() on a recording
RawResample(rec, sfreq) ==
    [sfreq      |-> sfreq,
     n_times    |-> ResampledLength(rec.n_times, rec.sfreq, sfreq),
     first_samp |-> RescaledSample(rec.first_samp, rec.sfreq, sfreq)]

RescaleEventsShifted(events, fs_old, fs_new) ==
    [i \in 1..Len(events) |->
        <<RescaledSample(events[(i % Len(events)) + 1][1], fs_old, fs_new),
          events[i][2], events[i][3]>>]

\* resample(events=...): a new array, column 0 rescaled, columns 1 and 2 kept
RescaleEvents(events, fs_old, fs_new) ==
    [i \in 1..Len(events) |->
        <<RescaledSample(events[i][1], fs_old, fs_new), events[i][2], events[i][3]>>]

---------------------------------------------------------------------------
(* main(): building the events matrix *)

IngestNoOffset(rows, first_samp) ==
    [i \in 1..Len(rows) |-> <<rows[i][1], 0, rows[i][2]>>]

IngestDropLast(rows, first_samp) ==
    [i \in 1..(IF Len(rows) = 0 THEN 0 ELSE Len(rows) - 1) |->
        <<first_samp + rows[i][1], 0, rows[i][2]>>]

\* [data.first_samp + sample for sample in samples], [0] * n, event_id, transposed
Ingest(rows, first_samp) ==
    [i \in 1..Len(rows) |-> <<first_samp + rows[i][1], 0, rows[i][2]>>]

---------------------------------------------------------------------------
(* main(): the trial-type map *)

\* list(events_resampled[:, 2])
ValueColumn(events) == [i \in 1..Len(events) |-> events[i][3]]

RECURSIVE SortedValues(_)
SortedValues(S) ==
    IF S = {} THEN <<>>
    ELSE LET m == CHOOSE x \in S : \A y \in S : x <= y
         IN  <<m>> \o SortedValues(S \ {m})

DistinctByMagnitude(vals) == SortedValues({vals[i] : i \in 1..Len(vals)})

\* list(Counter(event_id_value).keys()): the distinct values, first seen first
RECURSIVE DistinctInOrder(_)
DistinctInOrder(vals) ==
    IF vals = <<>> THEN <<>>
    ELSE LET front == DistinctInOrder(SubSeq(vals, 1, Len(vals) - 1))
             last  == vals[Len(vals)]
         IN  IF \E i \in 1..Len(front) : front[i] = last
             THEN front
             ELSE Append(front, last)

\* f"events_{i}"
TrialType(i) == <<"events", i>>

\* dict(zip(trials_type, id_values_occurrences)), in insertion order
DictEventId(events) ==
    LET ids == DistinctInOrder(ValueColumn(events))
    IN  [k \in 1..Len(ids) |-> <<TrialType(k), ids[k]>>]

\* the trial_type of a value: the key of event_id that maps to it
LabelOf(event_id, v) ==
    LET k == CHOOSE k \in 1..Len(event_id) : event_id[k][2] = v
    IN  event_id[k][1]

\* write_raw_bids(events_data=..., event_id=...): one row per triplet
WriteEventsTsv(events, event_id) ==
    [i \in 1..Len(events) |-> <<events[i][1], LabelOf(event_id, events[i][3]), events[i][3]>>]

---------------------------------------------------------------------------
(* resampling() *)

ReturnsEventsIgnoringFlag(epoched, em, save) == (~epoched) /\ em # 0

\* param_epoched_data is False and events_matrix is not None and
\* param_save_jointly_resampled_events is True
ReturnsEvents(epoched, em, save) == (~epoched) /\ em # 0 /\ save

\* the array resample() returns is a fresh one
NewArray(em) == em + 1

\* the whole function: resample in place, rescale the events, save, return
Resampling(h, ar, d, em, epoched, sfreq, save) ==
    LET rec == RawResample(h[d], sfreq)
        ev  == ReturnsEvents(epoched, em, save)
    IN  [raws             |-> [h EXCEPT ![d] = rec],
         arrays           |-> IF ev
                              THEN [ar EXCEPT ![NewArray(em)] =
                                        RescaleEvents(ar[em], h[d].sfreq, sfreq)]
                              ELSE ar,
         data_resampled   |-> d,
         events_resampled |-> IF ev THEN NewArray(em) ELSE 0,
         out_fif          |-> [saved |-> TRUE, rec |-> rec]]

NoCopy(d) == d

\* data.copy(): a fresh object
DataCopy(d) == d + 1

---------------------------------------------------------------------------
(* The run of main() *)

InitInputs ==
    /\ param_epoched_data \in BOOLEAN
    /\ param_save_jointly_resampled_events \in BOOLEAN
    /\ param_sfreq \in Rates
    /\ fif \in [sfreq : Rates, n_times : Lengths, first_samp : 0..MaxFirstSamp]
    /\ events_file \in {NoFile} \cup [present : {TRUE}, rows : RowSeqs]
    /\ raws = [r \in 1..2 |-> IF r = 1 THEN fif ELSE NoRaw]
    /\ data = 1
    /\ data_copy = 0
    /\ data_resampled = 0
    /\ events_resampled = 0
    /\ out_fif = [saved |-> FALSE, rec |-> NoRaw]
    /\ dict_event_id = <<>>
    /\ events_tsv = [written |-> FALSE, rows |-> <<>>]
    /\ product = <<>>
    /\ error = "none"

Init ==
    /\ InitInputs
    /\ pc = "read_events"
    /\ arrays = [a \in 1..2 |-> <<>>]
    /\ events_matrix = 0

\* lines 127-166
ReadEvents ==
    /\ pc = "read_events"
    /\ IF (~param_epoched_data) /\ events_file.present
       THEN /\ arrays' = [arrays EXCEPT ![1] = Ingest(events_file.rows, raws[data].first_samp)]
            /\ events_matrix' = 1
            /\ product' = product \o <<"warning_events", "info_resampled">>
       ELSE /\ events_matrix' = 0
            /\ product' = IF param_epoched_data THEN product
                          ELSE Append(product, "info_resampled")
            /\ UNCHANGED arrays
    /\ pc' = "check_events"
    /\ UNCHANGED <<param_epoched_data, param_save_jointly_resampled_events, param_sfreq,
                   fif, events_file, raws, data, data_copy, data_resampled,
                   events_resampled, out_fif, dict_event_id, events_tsv, error>>

\* lines 171-177
CheckEvents ==
    /\ pc = "check_events"
    /\ IF (~events_file.present) /\ param_save_jointly_resampled_events
       THEN error' = "ValueError" /\ pc' = "error"
       ELSE error' = error /\ pc' = "copy"
    /\ UNCHANGED <<param_epoched_data, param_save_jointly_resampled_events, param_sfreq,
                   fif, events_file, raws, arrays, data, data_copy, data_resampled,
                   events_matrix, events_resampled, out_fif, dict_event_id, events_tsv,
                   product>>

\* line 211
CopyData ==
    /\ pc = "copy"
    /\ data_copy' = DataCopy(data)
    /\ raws' = [raws EXCEPT ![DataCopy(data)] = raws[data]]
    /\ pc' = "resample"
    /\ UNCHANGED <<param_epoched_data, param_save_jointly_resampled_events, param_sfreq,
                   fif, events_file, arrays, data, data_resampled, events_matrix,
                   events_resampled, out_fif, dict_event_id, events_tsv, product, error>>

\* lines 212-213
ApplyResampling ==
    /\ pc = "resample"
    /\ LET res == Resampling(raws, arrays, data_copy, events_matrix, param_epoched_data,
                             param_sfreq, param_save_jointly_resampled_events)
       IN  /\ raws' = res.raws
           /\ arrays' = res.arrays
           /\ data_resampled' = res.data_resampled
           /\ events_resampled' = res.events_resampled
           /\ out_fif' = res.out_fif
    /\ data_copy' = 0
    /\ pc' = "create_events"
    /\ UNCHANGED <<param_epoched_data, param_save_jointly_resampled_events, param_sfreq,
                   fif, events_file, data, events_matrix, dict_event_id, events_tsv,
                   product, error>>

\* lines 215-249
CreateEvents ==
    /\ pc = "create_events"
    /\ IF events_resampled # 0 /\ ~param_epoched_data
       THEN /\ dict_event_id' = DictEventId(arrays[events_resampled])
            /\ events_tsv' = [written |-> TRUE,
                              rows |-> WriteEventsTsv(arrays[events_resampled],
                                                      DictEventId(arrays[events_resampled]))]
            /\ product' = Append(product, "info_events_saved")
       ELSE UNCHANGED <<dict_event_id, events_tsv, product>>
    /\ pc' = "success"
    /\ UNCHANGED <<param_epoched_data, param_save_jointly_resampled_events, param_sfreq,
                   fif, events_file, raws, arrays, data, data_copy, data_resampled,
                   events_matrix, events_resampled, out_fif, error>>

\* lines 252-258
Success ==
    /\ pc = "success"
    /\ product' = Append(product, "success")
    /\ pc' = "done"
    /\ UNCHANGED <<param_epoched_data, param_save_jointly_resampled_events, param_sfreq,
                   fif, events_file, raws, arrays, data, data_copy, data_resampled,
                   events_matrix, events_resampled, out_fif, dict_event_id, events_tsv,
                   error>>

Next == ReadEvents \/ CheckEvents \/ CopyData \/ ApplyResampling \/ CreateEvents \/ Success

Spec == Init /\ [][Next]_vars

---------------------------------------------------------------------------
(* resampling() on its own: any recording, any events matrix or None, any   *)
(* flags; then a second call that resamples the result back to the          *)
(* recording's original rate.                                               *)

InitCall ==
    /\ InitInputs
    /\ pc = "call"
    /\ \/ /\ events_file.present
          /\ arrays = [a \in 1..2 |-> IF a = 1 THEN Ingest(events_file.rows, fif.first_samp)
                                      ELSE <<>>]
          /\ events_matrix = 1
       \/ /\ ~events_file.present
          /\ arrays = [a \in 1..2 |-> <<>>]
          /\ events_matrix = 0

CallResampling ==
    /\ pc = "call"
    /\ LET res == Resampling(raws, arrays, data, events_matrix, param_epoched_data,
                             param_sfreq, param_save_jointly_resampled_events)
       IN  /\ raws' = res.raws
           /\ arrays' = res.arrays
           /\ data_resampled' = res.data_resampled
           /\ events_resampled' = res.events_resampled
           /\ out_fif' = res.out_fif
    /\ pc' = "call_back"
    /\ UNCHANGED <<param_epoched_data, param_save_jointly_resampled_events, param_sfreq,
                   fif, events_file, data, data_copy, events_matrix, dict_event_id,
                   events_tsv, product, error>>

CallResamplingBack ==
    /\ pc = "call_back"
    /\ LET res == Resampling(raws, arrays, data_resampled, 0, param_epoched_data,
                             fif.sfreq, FALSE)
       IN  /\ raws' = res.raws
           /\ arrays' = res.arrays
           /\ data_resampled' = res.data_resampled
           /\ out_fif' = res.out_fif
    /\ pc' = "returned"
    /\ UNCHANGED <<param_epoched_data, param_save_jointly_resampled_events, param_sfreq,
                   fif, events_file, data, data_copy, events_matrix, events_resampled,
                   dict_event_id, events_tsv, product, error>>

NextCall == CallResampling \/ CallResamplingBack

SpecCall == InitCall /\ [][NextCall]_vars

---------------------------------------------------------------------------
(* Properties *)

Resampled == pc \in {"create_events", "success", "done"}

Reported == pc = "done" /\ Len(product) > 0 /\ product[Len(product)] = "success"

\* C1: whenever the jointly resampled events are requested and no events
\* matrix is handed to resampling(), the run ends in the ValueError, raised
\* before the recording is copied, resampled or saved.
C1_ConfigErrorBeforeResampling ==
    (pc \notin {"read_events", "check_events"}
        /\ param_save_jointly_resampled_events /\ events_matrix = 0)
    => (pc = "error" /\ error = "ValueError" /\ data_copy = 0
        /\ data_resampled = 0 /\ ~out_fif.saved)

\* C2: the events matrix has one triplet per row of the events file, in row
\* order, and triplet i is (first_samp + sample_i, 0, value_i).
C2_Ingest ==
    events_matrix # 0 =>
        LET m == arrays[events_matrix]
            rows == events_file.rows
        IN  /\ Len(m) = Len(rows)
            /\ \A i \in 1..Len(rows) :
                   m[i] = <<fif.first_samp + rows[i][1], 0, rows[i][2]>>

C2_Witness ==
    /\ events_matrix # 0
    /\ fif.first_samp > 0
    /\ Len(events_file.rows) >= 2
    /\ events_file.rows[1][1] > events_file.rows[2][1]
    /\ arrays[events_matrix][1][1] > arrays[events_matrix][2][1]

FirstIndex(vals, v) ==
    CHOOSE i \in 1..Len(vals) : vals[i] = v /\ \A j \in 1..(i - 1) : vals[j] # v

\* C4: the trial-type map sends events_k to the k-th distinct value in order of
\* first appearance in the value column, whatever the values' magnitudes; it is
\* a bijection between events_1..events_n and the n distinct values.
C4_TrialTypeMap ==
    events_tsv.written =>
        LET vals == ValueColumn(arrays[events_resampled])
            distinct == {vals[i] : i \in 1..Len(vals)}
            n == Cardinality(distinct)
        IN  /\ Len(dict_event_id) = n
            /\ \A k \in 1..n : dict_event_id[k][1] = <<"events", k>>
            /\ {dict_event_id[k][2] : k \in 1..n} = distinct
            /\ \A k, l \in 1..n :
                   k < l => FirstIndex(vals, dict_event_id[k][2])
                              < FirstIndex(vals, dict_event_id[l][2])

C4_Witness ==
    /\ events_tsv.written
    /\ ValueColumn(arrays[events_resampled]) = <<7, 3>>
    /\ dict_event_id = << << <<"events", 1>>, 7 >>, << <<"events", 2>>, 3 >> >>

\* C5: a run whose events file is present with zero rows and that requests the
\* jointly resampled events never writes an events table and never reports
\* success.
C5_EmptyEventsRejected ==
    (events_file.present /\ events_file.rows = <<>>
        /\ param_save_jointly_resampled_events)
    => (~events_tsv.written /\ ~Reported)

\* C6: a run that requests the jointly resampled events and gets none back from
\* resampling() ends in an error; it never reports success.
C6_NoSilentSkip ==
    (param_save_jointly_resampled_events /\ pc \in {"done", "error"}
        /\ events_resampled = 0)
    => (error # "none" /\ ~Reported /\ ~out_fif.saved)

\* C7 (as claimed): events keep their strict order: a before b in the events
\* matrix implies a' strictly before b' in the resampled one, at any rates.
C7_StrictOrder ==
    events_resampled # 0 =>
        LET a == arrays[events_matrix]
            b == arrays[events_resampled]
        IN  \A i, j \in 1..Len(a) : a[i][1] < a[j][1] => b[i][1] < b[j][1]

\* C7 (amended): a before b implies a' not after b'; the order stays strict
\* when the new rate is not below the old one.
C7_OrderPreserved ==
    events_resampled # 0 =>
        LET a == arrays[events_matrix]
            b == arrays[events_resampled]
        IN  /\ Len(b) = Len(a)
            /\ \A i, j \in 1..Len(a) :
                   a[i][1] < a[j][1] =>
                       /\ b[i][1] <= b[j][1]
                       /\ (param_sfreq >= fif.sfreq => b[i][1] < b[j][1])

C7_Witness ==
    /\ events_resampled # 0
    /\ param_sfreq < fif.sfreq
    /\ LET a == arrays[events_matrix]
           b == arrays[events_resampled]
       IN  \E i, j \in 1..Len(a) : a[i][1] < a[j][1] /\ b[i][1] = b[j][1]

\* C8 (as claimed): resampling to the new rate and back to the original rate
\* yields the original number of samples, for every pair of rates.
C8_RoundTrip ==
    pc = "returned" => raws[data_resampled].n_times = fif.n_times

\* C8 (amended): the round trip yields the original number of samples when the
\* new rate is not below the original one.
C8_RoundTripUpsampling ==
    (pc = "returned" /\ param_sfreq >= fif.sfreq) =>
        /\ raws[data_resampled].n_times = fif.n_times
        /\ raws[data_resampled].sfreq = fif.sfreq

C8_Witness ==
    /\ pc = "returned"
    /\ param_sfreq > fif.sfreq
    /\ (fif.n_times * param_sfreq) % fif.sfreq # 0
    /\ raws[data_resampled].n_times = fif.n_times

\* C9: resampling() returns an events matrix exactly when the data is
\* continuous, a matrix was supplied and the flag is set, and then it is the
\* supplied one with column 0 rescaled; for epoched data it returns None.
C9_ReturnsEvents ==
    pc = "call_back" =>
        /\ (events_resampled # 0) <=>
               ((~param_epoched_data) /\ events_matrix # 0
                    /\ param_save_jointly_resampled_events)
        /\ param_epoched_data => events_resampled = 0
        /\ events_resampled # 0 =>
               LET a == arrays[events_matrix]
                   b == arrays[events_resampled]
               IN  /\ Len(b) = Len(a)
                   /\ \A i \in 1..Len(a) : b[i][2] = a[i][2] /\ b[i][3] = a[i][3]

C9_Witness ==
    /\ pc = "call_back"
    /\ param_epoched_data
    /\ events_matrix # 0
    /\ Len(arrays[events_matrix]) > 0
    /\ param_save_jointly_resampled_events
    /\ events_resampled = 0
    /\ raws[data_resampled].sfreq = param_sfreq

\* C10: after resampling, the recording main() holds still has the rate,
\* sample count and first sample it was read with, and the events matrix
\* passed in is still the one built from the events file; the resampled
\* recording and events are other objects.
C10_InputsUnchanged ==
    Resampled =>
        /\ raws[data] = fif
        /\ data_resampled # data
        /\ events_matrix # 0 =>
               arrays[events_matrix] = Ingest(events_file.rows, fif.first_samp)
        /\ events_resampled # 0 => events_resampled # events_matrix

C10_Witness ==
    /\ pc = "done"
    /\ raws[data_resampled].sfreq # fif.sfreq
    /\ raws[data_resampled].n_times # fif.n_times
    /\ raws[data] = fif
    /\ events_resampled # 0
    /\ arrays[events_resampled] # arrays[events_matrix]

====
